---- MODULE Spec2Model ----
(***************************************************************************)
(* Model of the synthetic financial-transaction generator:                 *)
(*   src/ctgan_model.py  FinancialDataGenerator (preprocess_data,          *)
(*                       train_ctgan, generate_synthetic_data,             *)
(*                       analyze_data)                                     *)
(*   src/app.py          the /generate and /download request handlers and  *)
(*                       the process-wide latest_synthetic_data slot       *)
(*                                                                         *)
(* A pandas DataFrame is a record [nrows, columns]; columns is a sequence  *)
(* of [name, dtype, vals].  Row labels are 1..nrows (a RangeIndex).        *)
(* A cell is a record [t, n, s]:                                           *)
(*   t = "int"       n is the integer (s, when not "", is the decimal      *)
(*                   text of an integer too wide for TLC integers)         *)
(*   t = "float"     n is the value counted in halves (1.0 is n = 2,       *)
(*                   0.5 is n = 1); s = "nan" marks NaN                    *)
(*   t = "str"       s is the string                                       *)
(*   t = "datetime"  n is milliseconds since the epoch; s = "NaT" is NaT   *)
(***************************************************************************)
EXTENDS Integers, Sequences, FiniteSets, TLC

VARIABLES
  columns,          \* self.columns: the schema, NoSchema for None
  ctgan_model,      \* self.ctgan_model: "None", "unfitted" (fit raised) or "fitted"
  synthetic_data,   \* self.synthetic_data, NoData for None
  last,             \* the last call on the generator: arguments and outcome
  ever_fitted       \* history: some train_ctgan call has completed

VARIABLES
  latest_synthetic_data,  \* app.py's global slot, NoData for None
  threads,                \* the request each server thread is handling
  last_writer,            \* history: the thread that last assigned the slot, 0 for none
  written                 \* history: the table that thread had generated

genVars == <<columns, ctgan_model, synthetic_data, last, ever_fitted>>
appVars == <<latest_synthetic_data, threads, last_writer, written>>
vars == <<genVars, appVars>>

\* ------------------------------------------------------------------ bounds
MaxRows == 3
PDen == 4
NumThreads == 2
MaxTransactions == 2

\* ------------------------------------------------------------------- cells
IntCell(k) == [t |-> "int", n |-> k, s |-> ""]
FloatCell(h) == [t |-> "float", n |-> h, s |-> ""]
NaN == [t |-> "float", n |-> 0, s |-> "nan"]
StrCell(x) == [t |-> "str", n |-> 0, s |-> x]
DateCell(ms) == [t |-> "datetime", n |-> ms, s |-> ""]
NaT == [t |-> "datetime", n |-> 0, s |-> "NaT"]

IsMissing(c) == c = NaN \/ c = NaT

Min(a, b) == IF a < b THEN a ELSE b
KSubsets(S, k) == {T \in SUBSET S : Cardinality(T) = k}

\* python's int(x) of the rational a/b, b > 0: truncation toward zero
Trunc(a, b) == IF a >= 0 THEN a \div b ELSE -((-a) \div b)

\* Series.astype(str) of one cell
AsStr(c) ==
  CASE c.t = "int" -> IF c.s # "" THEN c.s ELSE ToString(c.n)
    [] c.t = "float" ->
         IF c.s = "nan" THEN "nan"
         ELSE IF c.n >= 0
              THEN ToString(c.n \div 2) \o (IF c.n % 2 = 0 THEN ".0" ELSE ".5")
              ELSE "-" \o ToString((-c.n) \div 2) \o (IF (-c.n) % 2 = 0 THEN ".0" ELSE ".5")
    [] c.t = "str" -> c.s
    [] c.t = "datetime" -> IF c.s = "NaT" THEN "NaT" ELSE "1970-01-01T+" \o ToString(c.n)

\* ------------------------------------------------------------------ tables
NoData == [nrows |-> -1, columns |-> <<>>]
IsNone(tbl) == tbl.nrows < 0
ColumnNames(tbl) == [i \in 1..Len(tbl.columns) |-> tbl.columns[i].name]
HasCol(tbl, name) == \E i \in 1..Len(tbl.columns) : tbl.columns[i].name = name
ColIndex(tbl, name) == CHOOSE i \in 1..Len(tbl.columns) : tbl.columns[i].name = name
Col(tbl, name) == tbl.columns[ColIndex(tbl, name)]
\* DataFrame.empty: no rows or no columns
IsEmpty(tbl) == tbl.nrows = 0 \/ Len(tbl.columns) = 0

NoSchema == [isNone |-> TRUE, names |-> <<>>]
Schema(names) == [isNone |-> FALSE, names |-> names]

\* ---------------------------------------------- generate_synthetic_data
ReindexKeepExtras(raw, cols) ==
  IF cols.isNone \/ Len(cols.names) = 0 THEN raw
  ELSE [nrows |-> raw.nrows,
        columns |-> [i \in 1..Len(cols.names) |->
                       IF HasCol(raw, cols.names[i]) THEN Col(raw, cols.names[i])
                       ELSE [name |-> cols.names[i], dtype |-> "float64",
                             vals |-> [j \in 1..raw.nrows |-> NaN]]]
                    \o SelectSeq(raw.columns,
                                 LAMBDA c : \A i \in 1..Len(cols.names) : cols.names[i] # c.name)]

\* the reindexing of the model's output to self.columns
ReindexToSchema(raw, cols) ==
  IF cols.isNone \/ Len(cols.names) = 0 THEN raw
  ELSE [nrows |-> raw.nrows,
        columns |-> [i \in 1..Len(cols.names) |->
                       IF HasCol(raw, cols.names[i]) THEN Col(raw, cols.names[i])
                       ELSE [name |-> cols.names[i], dtype |-> "float64",
                             vals |-> [j \in 1..raw.nrows |-> NaN]]]]

TruthyStrings == {"1", "True", "true"}

NonFraudIndicesAnyRow(tbl, col) == 1..tbl.nrows

\* the row labels whose cell in col reads as a positive label
FraudIndices(tbl, col) ==
  {i \in 1..tbl.nrows : AsStr(Col(tbl, col).vals[i]) \in TruthyStrings}

\* synthetic.index.difference(fraud_indices)
NonFraudIndices(tbl, col) == (1..tbl.nrows) \ FraudIndices(tbl, col)

DesiredInRangeUnchecked(desired) == TRUE

\* desired is the rational desired.num / desired.den
DesiredInRange(desired) == 0 <= desired.num /\ desired.num <= desired.den

\* python's round() of the rational a/b, b > 0, a >= 0: half to even
RoundHalfEven(a, b) ==
  LET q == a \div b
      r == a % b
  IN  IF 2 * r < b THEN q
      ELSE IF 2 * r > b THEN q + 1
      ELSE IF q % 2 = 0 THEN q ELSE q + 1

DesiredCountRounded(num_samples, desired) ==
  RoundHalfEven(num_samples * desired.num, desired.den)

DesiredCount(num_samples, desired) == Trunc(num_samples * desired.num, desired.den)

\* the cell a column of the given dtype holds after the python int v is assigned
AssignedCell(dtype, v) == IF dtype = "float64" THEN FloatCell(2 * v) ELSE IntCell(v)

SetLocWholeRow(tbl, to_flip, col, v) ==
  [tbl EXCEPT !.columns =
     [i \in 1..Len(tbl.columns) |->
        [tbl.columns[i] EXCEPT !.vals =
           [j \in 1..tbl.nrows |->
              IF j \in to_flip THEN AssignedCell(tbl.columns[i].dtype, v)
              ELSE tbl.columns[i].vals[j]]]]]

\* synthetic.loc[to_flip, col] = v
SetLoc(tbl, to_flip, col, v) ==
  [tbl EXCEPT !.columns =
     [i \in 1..Len(tbl.columns) |->
        IF tbl.columns[i].name = col
        THEN [tbl.columns[i] EXCEPT !.vals =
                [j \in 1..tbl.nrows |->
                   IF j \in to_flip THEN AssignedCell(tbl.columns[i].dtype, v)
                   ELSE tbl.columns[i].vals[j]]]
        ELSE tbl.columns[i]]]

NoFlip(col) == [col |-> col, to_flip |-> {}, value |-> -1]

\* one pass of the loop over adjust_target: the set of outcomes, one per
\* draw np.random.choice can make
AdjustColumn(tbl, num_samples, col, desired) ==
  IF ~(HasCol(tbl, col) /\ DesiredInRange(desired))
  THEN {[table |-> tbl, flip |-> NoFlip(col)]}
  ELSE LET desired_count == DesiredCount(num_samples, desired)
           fraud_indices == FraudIndices(tbl, col)
           non_fraud_indices == NonFraudIndices(tbl, col)
       IN  IF Cardinality(fraud_indices) > desired_count
           THEN {[table |-> SetLoc(tbl, S, col, 0),
                  flip |-> [col |-> col, to_flip |-> S, value |-> 0]] :
                   S \in KSubsets(fraud_indices,
                                  Cardinality(fraud_indices) - desired_count)}
           ELSE IF Cardinality(fraud_indices) < desired_count
           THEN {[table |-> SetLoc(tbl, S, col, 1),
                  flip |-> [col |-> col, to_flip |-> S, value |-> 1]] :
                   S \in KSubsets(non_fraud_indices,
                                  Min(desired_count - Cardinality(fraud_indices),
                                      Cardinality(non_fraud_indices)))}
           ELSE {[table |-> tbl, flip |-> NoFlip(col)]}

\* the loop over adjust_target.items(); adjust_target is the sequence of its
\* (col, desired) entries, <<>> for None or {}
RECURSIVE AdjustTarget(_, _, _)
AdjustTarget(tbl, num_samples, adjust_target) ==
  IF adjust_target = <<>> THEN {[table |-> tbl, flips |-> <<>>]}
  ELSE UNION {
         {[table |-> rest.table, flips |-> <<first.flip>> \o rest.flips] :
            rest \in AdjustTarget(first.table, num_samples, Tail(adjust_target))} :
         first \in AdjustColumn(tbl, num_samples, Head(adjust_target).col,
                                Head(adjust_target).desired)}

\* ------------------------------------------------------------ analyze_data
\* pd.to_numeric(errors="coerce") of the strings the model's tables hold;
\* a string outside this table does not parse and becomes NaN
ParseNumeric(x) ==
  CASE x = "0" -> IntCell(0)
    [] x = "1" -> IntCell(1)
    [] x = "2" -> IntCell(2)
    [] OTHER -> NaN

\* pd.to_numeric(cell, errors="coerce").fillna(0).astype(int), as an integer
CoerceToInt(c) ==
  LET num == IF c.t = "str" THEN ParseNumeric(c.s)
             ELSE IF c.t = "datetime" THEN NaN ELSE c
  IN  IF num.t = "int" THEN num.n
      ELSE IF num.s = "nan" THEN 0
      ELSE Trunc(num.n, 2)

RECURSIVE SumOver(_, _)
SumOver(f, S) ==
  IF S = {} THEN 0
  ELSE LET i == CHOOSE j \in S : TRUE IN f[i] + SumOver(f, S \ {i})

\* a numeric cell's value in halves
Halves(c) == IF c.t = "int" THEN 2 * c.n ELSE c.n

Present(col) == {i \in DOMAIN col.vals : ~IsMissing(col.vals[i])}

\* the non-missing values of a numeric column, in halves, ascending
RECURSIVE SortedValues(_, _)
SortedValues(col, S) ==
  IF S = {} THEN <<>>
  ELSE LET i == CHOOSE j \in S : \A k \in S : Halves(col.vals[j]) <= Halves(col.vals[k])
       IN  <<Halves(col.vals[i])>> \o SortedValues(col, S \ {i})

\* Series.quantile(qn/qd) with linear interpolation, times qd; the quantiles
\* 0.95 and 0.05 are LargeQuantile/100 and MicroQuantile/100
QuantileTimes(col, qn, qd) ==
  LET v == SortedValues(col, Present(col))
      m == Len(v)
      lo == ((m - 1) * qn) \div qd
      hi == Min(lo + 1, m - 1)
      frac == (m - 1) * qn - lo * qd
  IN  v[lo + 1] * qd + frac * (v[hi + 1] - v[lo + 1])

LargeQuantile == 95
MicroQuantile == 5

LargeTransactions(col) ==
  IF Present(col) = {} THEN 0
  ELSE Cardinality({i \in Present(col) :
         Halves(col.vals[i]) * 100 > QuantileTimes(col, LargeQuantile, 100)})

MicroTransactions(col) ==
  IF Present(col) = {} THEN 0
  ELSE Cardinality({i \in Present(col) :
         Halves(col.vals[i]) * 100 < QuantileTimes(col, MicroQuantile, 100)})

\* str.lower() of the strings the model's tables hold
Lower(x) ==
  CASE x = "International" -> "international"
    [] x = "INTERNATIONAL" -> "international"
    [] x = "Domestic" -> "domestic"
    [] OTHER -> x

InternationalTransactions(col) ==
  Cardinality({i \in DOMAIN col.vals : Lower(AsStr(col.vals[i])) = "international"})

\* Series.value_counts().to_dict() over the rows in S: the (value, count) pairs
ValueCounts(col, S) ==
  {[value |-> v, count |-> Cardinality({i \in S : col.vals[i] = v})] :
     v \in {col.vals[i] : i \in S \cap Present(col)}}

NoRisk == [keys |-> {}, large_transactions |-> 0, micro_transactions |-> 0,
           international_transactions |-> 0]

NoReport == [keys |-> {}, total_transactions |-> 0, total_amount |-> 0,
             avg_transaction |-> [num |-> 0, den |-> 0],
             fraud_count |-> 0, fraud_percentage |-> [num |-> 0, den |-> 1],
             category_distribution |-> {}, fraud_by_category |-> {},
             risk_patterns |-> NoRisk]

\* sum() and mean() of an object column raise; so does quantile()
AnalyzeRaises(data) ==
  /\ ~IsNone(data) /\ ~IsEmpty(data)
  /\ HasCol(data, "amount") /\ Col(data, "amount").dtype = "object"

RiskPatternsWithZeros(data) ==
  [keys |-> {"large_transactions", "micro_transactions", "international_transactions"},
   large_transactions |->
     IF HasCol(data, "amount") THEN LargeTransactions(Col(data, "amount")) ELSE 0,
   micro_transactions |->
     IF HasCol(data, "amount") THEN MicroTransactions(Col(data, "amount")) ELSE 0,
   international_transactions |->
     IF HasCol(data, "location") THEN InternationalTransactions(Col(data, "location"))
     ELSE 0]

\* the risk_patterns dict built from the columns the table has
RiskPatterns(data) ==
  LET amt == HasCol(data, "amount")
      loc == HasCol(data, "location")
  IN  [keys |-> (IF amt THEN {"large_transactions", "micro_transactions"} ELSE {})
                  \cup (IF loc THEN {"international_transactions"} ELSE {}),
       large_transactions |-> IF amt THEN LargeTransactions(Col(data, "amount")) ELSE 0,
       micro_transactions |-> IF amt THEN MicroTransactions(Col(data, "amount")) ELSE 0,
       international_transactions |->
         IF loc THEN InternationalTransactions(Col(data, "location")) ELSE 0]

\* the analysis dict; keys is the set of keys it holds.  total_amount is in
\* halves, avg_transaction and fraud_percentage are the rationals num/den
\* (den = 0: NaN)
Analysis(data) ==
  IF IsNone(data) THEN [NoReport EXCEPT !.keys = {"total_transactions"}]
  ELSE IF IsEmpty(data)
  THEN [NoReport EXCEPT !.keys = {"total_transactions"},
                        !.total_transactions = data.nrows]
  ELSE LET amt == HasCol(data, "amount")
           frd == HasCol(data, "is_fraud")
           cat == HasCol(data, "merchant_category")
           rows == 1..data.nrows
           total == SumOver([i \in rows |->
                       IF IsMissing(Col(data, "amount").vals[i]) THEN 0
                       ELSE Halves(Col(data, "amount").vals[i])], rows)
           fraud_count == SumOver([i \in rows |->
                             CoerceToInt(Col(data, "is_fraud").vals[i])], rows)
           risk_patterns == RiskPatterns(data)
       IN  [keys |-> {"total_transactions"}
                     \cup (IF amt THEN {"total_amount", "avg_transaction"} ELSE {})
                     \cup (IF frd THEN {"fraud_count", "fraud_percentage"} ELSE {})
                     \cup (IF cat THEN {"category_distribution"} ELSE {})
                     \cup (IF frd /\ cat THEN {"fraud_by_category"} ELSE {})
                     \cup (IF risk_patterns.keys # {} THEN {"risk_patterns"} ELSE {}),
            total_transactions |-> data.nrows,
            total_amount |-> IF amt THEN total ELSE 0,
            avg_transaction |->
              IF amt THEN [num |-> total,
                           den |-> 2 * Cardinality(Present(Col(data, "amount")))]
              ELSE [num |-> 0, den |-> 0],
            fraud_count |-> IF frd THEN fraud_count ELSE 0,
            fraud_percentage |->
              IF frd THEN [num |-> fraud_count * 100, den |-> data.nrows]
              ELSE [num |-> 0, den |-> 1],
            category_distribution |->
              IF cat THEN ValueCounts(Col(data, "merchant_category"), rows) ELSE {},
            fraud_by_category |->
              IF frd /\ cat
              THEN ValueCounts(Col(data, "merchant_category"),
                               FraudIndices(data, "is_fraud"))
              ELSE {},
            risk_patterns |-> IF risk_patterns.keys # {} THEN risk_patterns ELSE NoRisk]

\* ---------------------------------------------------------- preprocess_data
\* pd.to_datetime(errors="coerce") of the strings the model's tables hold;
\* anything else does not parse and becomes NaT
ParseDatetime(c) ==
  CASE c.t = "datetime" -> c
    [] c.t = "str" /\ c.s = "1970-01-01 00:00:01.500" -> DateCell(1500)
    [] c.t = "str" /\ c.s = "1970-01-01 00:00:02" -> DateCell(2000)
    [] OTHER -> NaT

\* astype('int64') // 10**9 of a datetime cell: nanoseconds to whole seconds
\* (milliseconds \div 1000); NaT is the int64 minimum, -9223372036854775808
ToEpochSeconds(c) ==
  IF c = NaT THEN [t |-> "int", n |-> 0, s |-> "-9223372037"]
  ELSE IntCell(c.n \div 1000)

MapCells(col, Op(_)) == [col EXCEPT !.vals = [i \in DOMAIN col.vals |-> Op(col.vals[i])]]

\* first loop: datetime-like columns become epoch seconds
ConvertDatetime(col) ==
  IF col.dtype = "datetime64"
  THEN [MapCells(col, ToEpochSeconds) EXCEPT !.dtype = "int64"]
  ELSE IF col.dtype = "object"
  THEN LET parsed == MapCells(col, ParseDatetime)
           n == Len(col.vals)
       IN  IF n > 0 /\ 2 * Cardinality(Present(parsed)) > n
           THEN [MapCells(parsed, ToEpochSeconds) EXCEPT !.dtype = "int64"]
           ELSE col
  ELSE col

\* astype(str).fillna("Unknown") of one cell
ToStringCell(c) ==
  LET str == StrCell(AsStr(c)) IN IF IsMissing(str) THEN StrCell("Unknown") ELSE str

\* second loop: object columns become strings
ObjectToString(col) ==
  IF col.dtype = "object" THEN MapCells(col, ToStringCell) ELSE col

\* Series.median() of the non-missing values, in halves (the tables' floats
\* are whole numbers, so the mean of the two middle values is a half)
Median(col) ==
  LET v == SortedValues(col, Present(col))
      m == Len(v)
  IN  IF m % 2 = 1 THEN v[(m + 1) \div 2]
      ELSE (v[m \div 2] + v[m \div 2 + 1]) \div 2

FillNa(col, fill) ==
  [col EXCEPT !.vals = [i \in DOMAIN col.vals |->
                          IF IsMissing(col.vals[i]) THEN fill ELSE col.vals[i]]]

FillNumericMedianOnly(col) ==
  IF col.dtype \in {"int64", "float64"}
  THEN IF Present(col) = {} THEN FillNa(col, NaN)
       ELSE IF col.dtype = "float64" THEN FillNa(col, FloatCell(Median(col)))
       ELSE col
  ELSE col

\* third loop: numeric NaN becomes the median (0 when the column is all NaN)
FillNumeric(col) ==
  IF col.dtype \in {"int64", "float64"}
  THEN IF Present(col) = {} THEN FillNa(col, FloatCell(0))
       ELSE IF col.dtype = "float64" THEN FillNa(col, FloatCell(Median(col)))
       ELSE col
  ELSE col

Preprocessed(data) ==
  [data EXCEPT !.columns =
     [i \in 1..Len(data.columns) |->
        FillNumeric(ObjectToString(ConvertDatetime(data.columns[i])))]]

\* -------------------------------------------------------- the generator
LastInit ==
  [op |-> "init", raised |-> "", data |-> NoData, data_after |-> NoData, num_samples |-> 0,
   adjust_target |-> <<>>, raw |-> NoData, sampled |-> NoData, flips |-> <<>>,
   ret |-> NoData, report |-> NoReport, before |-> NoData]

NoResponse == [status |-> 0, body |-> "", table |-> NoData, report |-> NoReport]

Idle == [pc |-> "idle", kind |-> "", format |-> "", synthetic_data |-> NoData,
         response |-> NoResponse]

\* FinancialDataGenerator.__init__, and app.py as loaded
Init ==
  /\ columns = NoSchema
  /\ ctgan_model = "None"
  /\ synthetic_data = NoData
  /\ last = LastInit
  /\ ever_fitted = FALSE
  /\ latest_synthetic_data = NoData
  /\ threads = [t \in 1..NumThreads |-> Idle]
  /\ last_writer = 0
  /\ written = NoData

\* the caller's table after the call: the edits go to data.copy()
ArgumentAfterPreprocess(data) == data

\* data_after: the caller's table as the call leaves it
PreprocessData(data) ==
  /\ IF IsNone(data)
     THEN /\ last' = [LastInit EXCEPT !.op = "preprocess_data", !.data = data,
                                      !.raised = "No data provided to preprocess",
                                      !.before = synthetic_data]
          /\ UNCHANGED columns
     ELSE /\ columns' = Schema(ColumnNames(Preprocessed(data)))
          /\ last' = [LastInit EXCEPT !.op = "preprocess_data", !.data = data,
                                      !.data_after = ArgumentAfterPreprocess(data),
                                      !.ret = Preprocessed(data),
                                      !.before = synthetic_data]
  /\ UNCHANGED <<ctgan_model, synthetic_data, ever_fitted, appVars>>

\* fit_raises: whether CTGAN.fit raises on this data
TrainCtgan(data, fit_raises) ==
  /\ IF IsNone(data) \/ data.nrows = 0
     THEN /\ last' = [LastInit EXCEPT !.op = "train_ctgan", !.data = data,
                                      !.raised = "No data available for training",
                                      !.before = synthetic_data]
          /\ UNCHANGED <<ctgan_model, ever_fitted>>
     ELSE /\ ctgan_model' = IF fit_raises THEN "unfitted" ELSE "fitted"
          /\ ever_fitted' = (ever_fitted \/ ~fit_raises)
          /\ last' = [LastInit EXCEPT !.op = "train_ctgan", !.data = data,
                                      !.raised = IF fit_raises THEN "CTGAN.fit raised" ELSE "",
                                      !.before = synthetic_data]
  /\ UNCHANGED <<columns, synthetic_data, appVars>>

\* raw: what self.ctgan_model.sample(num_samples) returns, NoData when it raises
GenerateSyntheticData(num_samples, adjust_target, raw) ==
  /\ IF ctgan_model = "None"
     THEN /\ last' = [LastInit EXCEPT !.op = "generate_synthetic_data",
                                      !.num_samples = num_samples,
                                      !.adjust_target = adjust_target,
                                      !.raised = "Model not trained yet.",
                                      !.before = synthetic_data]
          /\ UNCHANGED synthetic_data
     ELSE IF IsNone(raw)
     THEN /\ last' = [LastInit EXCEPT !.op = "generate_synthetic_data",
                                      !.num_samples = num_samples,
                                      !.adjust_target = adjust_target,
                                      !.raised = "CTGAN.sample raised",
                                      !.before = synthetic_data]
          /\ UNCHANGED synthetic_data
     ELSE \E out \in AdjustTarget(ReindexToSchema(raw, columns), num_samples, adjust_target) :
            /\ synthetic_data' = out.table
            /\ last' = [LastInit EXCEPT !.op = "generate_synthetic_data",
                                        !.num_samples = num_samples,
                                        !.adjust_target = adjust_target,
                                        !.raw = raw,
                                        !.sampled = ReindexToSchema(raw, columns),
                                        !.flips = out.flips,
                                        !.ret = out.table,
                                        !.before = synthetic_data]
  /\ UNCHANGED <<columns, ctgan_model, ever_fitted, appVars>>

AnalyzeData(data) ==
  /\ last' = IF AnalyzeRaises(data)
             THEN [LastInit EXCEPT !.op = "analyze_data", !.data = data,
                                   !.raised = "TypeError", !.before = synthetic_data]
             ELSE [LastInit EXCEPT !.op = "analyze_data", !.data = data,
                                   !.report = Analysis(data), !.before = synthetic_data]
  /\ UNCHANGED <<columns, ctgan_model, synthetic_data, ever_fitted, appVars>>

\* ------------------------------------------------- inputs of the pipeline
SeqsOver(S, n) == [1..n -> S]

Desireds == {[num |-> k, den |-> PDen] : k \in (-1)..(PDen + 1)}

AdjustTargets ==
  {<<>>} \cup {<<[col |-> c, desired |-> d]>> : c \in {"is_fraud", "label"}, d \in Desireds}

AmountColumn(n) ==
  [name |-> "amount", dtype |-> "int64", vals |-> [i \in 1..n |-> IntCell(10 * i)]]

LabelColumns(n) ==
  {[name |-> "is_fraud", dtype |-> "int64", vals |-> v] :
     v \in SeqsOver({IntCell(0), IntCell(1), IntCell(2)}, n)}
  \cup {[name |-> "is_fraud", dtype |-> "float64", vals |-> v] :
     v \in SeqsOver({FloatCell(0), FloatCell(2), NaN}, n)}
  \cup {[name |-> "is_fraud", dtype |-> "object", vals |-> v] :
     v \in SeqsOver({StrCell("0"), StrCell("1"), StrCell("True"), StrCell("true"),
                     StrCell("abc")}, n)}

\* what the fitted model may return for sample(n): n rows, the label column of
\* any dtype, or no label column at all
PipelineSamples(n) ==
  {[nrows |-> n, columns |-> <<AmountColumn(n), lab>>] : lab \in LabelColumns(n)}
  \cup {[nrows |-> n, columns |-> <<AmountColumn(n)>>]}

TrainingTables ==
  {[nrows |-> 2, columns |-> <<AmountColumn(2),
      [name |-> "is_fraud", dtype |-> "int64", vals |-> <<IntCell(0), IntCell(1)>>]>>],
   [nrows |-> 2, columns |-> <<AmountColumn(2)>>]}

\* one run of the pipeline, in the order /generate calls it:
\* preprocess_data, train_ctgan, generate_synthetic_data, analyze_data
PipelineNext ==
  \/ /\ last.op = "init"
     /\ \E data \in TrainingTables : PreprocessData(data)
  \/ /\ last.op = "preprocess_data"
     /\ TrainCtgan(last.ret, FALSE)
  \/ /\ last.op = "train_ctgan"
     /\ \E n \in 0..MaxRows : \E adjust_target \in AdjustTargets :
          \E raw \in PipelineSamples(n) : GenerateSyntheticData(n, adjust_target, raw)
  \/ /\ last.op = "generate_synthetic_data"
     /\ AnalyzeData(synthetic_data)

SpecPipeline == Init /\ [][PipelineNext]_vars

\* ------------------------------------------- the target-ratio adjustment
\* generate_synthetic_data returned a table
Generated == last.op = "generate_synthetic_data" /\ last.raised = ""

TargetEntry == last.adjust_target[1]
TargetCol == TargetEntry.col
InUnitInterval(d) == d.num >= 0 /\ d.num <= d.den

\* ... and the adjustment applied to a target column the sample has, with a
\* desired proportion in [0,1]
Adjusted ==
  /\ Generated
  /\ Len(last.adjust_target) = 1
  /\ HasCol(last.sampled, TargetCol)
  /\ InUnitInterval(TargetEntry.desired)

PositivesBefore == FraudIndices(last.sampled, TargetCol)
NegativesBefore == (1..last.sampled.nrows) \ PositivesBefore
Flip == last.flips[1]

\* the rows the adjuster leaves marked positive: those it read as positive and
\* did not set to 0, and those it set to 1
MarkedPositive ==
  (PositivesBefore \ (IF Flip.value = 0 THEN Flip.to_flip ELSE {}))
    \cup (IF Flip.value = 1 THEN Flip.to_flip ELSE {})

FloorCount(n, d) == (n * d.num) \div d.den
RoundCount(n, d) == RoundHalfEven(n * d.num, d.den)

ExpectedPositives(Count(_, _)) ==
  LET n == last.sampled.nrows
      c == Cardinality(PositivesBefore)
      pool == Cardinality(NegativesBefore)
      target == Min(Count(n, TargetEntry.desired), n)
  IN  IF pool >= target - c THEN target ELSE c + pool

\* the positive count after the adjustment is the expected one: counted over
\* the rows the adjuster marks positive and, when the column's dtype lets the
\* written 0/1 read back as a label (int64, object), over the returned table
PositiveCountIs(Count(_, _)) ==
  Adjusted =>
    /\ Cardinality(MarkedPositive) = ExpectedPositives(Count)
    /\ Col(last.sampled, TargetCol).dtype \in {"int64", "object"}
         => Cardinality(FraudIndices(last.ret, TargetCol)) = ExpectedPositives(Count)

ReadsAs(c, v) == c = IntCell(v) \/ c = FloatCell(2 * v)

\* the rows in Flip.to_flip, all from pool, hold v afterwards; every other row
\* of the target column is as sampled
FlippedExactly(pool, k, v) ==
  /\ Flip.to_flip \subseteq pool
  /\ Cardinality(Flip.to_flip) = k
  /\ \A i \in 1..last.sampled.nrows :
       IF i \in Flip.to_flip
       THEN ReadsAs(Col(last.ret, TargetCol).vals[i], v)
       ELSE Col(last.ret, TargetCol).vals[i] = Col(last.sampled, TargetCol).vals[i]

C3_OnlyTargetColumnChanges ==
  Generated =>
    /\ last.ret.nrows = last.sampled.nrows
    /\ ColumnNames(last.ret) = ColumnNames(last.sampled)
    /\ \A i \in 1..Len(last.sampled.columns) :
         (Len(last.adjust_target) = 0 \/ last.sampled.columns[i].name # TargetCol)
           => last.ret.columns[i] = last.sampled.columns[i]

\* rows were flipped and the table has a column that is not the target
C3_Witness ==
  /\ Adjusted
  /\ Flip.to_flip # {}
  /\ last.ret # last.sampled
  /\ \E i \in 1..Len(last.sampled.columns) : last.sampled.columns[i].name # TargetCol

\* C10: with the desired proportion outside [0,1], or the target column absent
\* from the sample, the returned table is the schema-reindexed sample in every
\* column and no error is raised.
C10_NoOpOutsideRangeOrAbsent ==
  (/\ last.op = "generate_synthetic_data"
   /\ ~IsNone(last.raw)
   /\ Len(last.adjust_target) = 1
   /\ (~InUnitInterval(TargetEntry.desired) \/ ~HasCol(last.sampled, TargetCol)))
    => /\ last.raised = ""
       /\ last.ret = last.sampled
       /\ synthetic_data = last.sampled

\* desired is 5/4 on a table whose label column has a negative row
C10_Witness ==
  /\ Generated
  /\ Len(last.adjust_target) = 1
  /\ TargetEntry.desired.num > TargetEntry.desired.den
  /\ HasCol(last.sampled, TargetCol)
  /\ NegativesBefore # {}
  /\ last.ret = last.sampled

\* C9 (as stated): analyze_data reads the label column as the adjuster does:
\* fraud_count is the number of rows the adjuster treats as positive.
C9_FraudCountIsAdjusterCount ==
  (/\ last.op = "analyze_data"
   /\ last.raised = ""
   /\ "fraud_count" \in last.report.keys)
    => last.report.fraud_count = Cardinality(FraudIndices(last.data, "is_fraud"))

\* ------------------------------------------------ one generator, any calls
EmptyFrame == [nrows |-> 0, columns |-> <<>>]

LifecycleTables == {NoData, EmptyFrame} \cup TrainingTables

LifecycleAdjust == {<<>>, <<[col |-> "is_fraud", desired |-> [num |-> 1, den |-> 2]]>>}

ExtraColumn(n) ==
  [name |-> "extra", dtype |-> "object", vals |-> [i \in 1..n |-> StrCell("x")]]

FraudColumn(n) ==
  [name |-> "is_fraud", dtype |-> "int64", vals |-> [i \in 1..n |-> IntCell(i % 2)]]

\* what sample(n) may return: n rows, and any columns
LifecycleSamples(n) ==
  {[nrows |-> n, columns |-> c] :
     c \in {<<AmountColumn(n), FraudColumn(n)>>,
            <<FraudColumn(n), ExtraColumn(n), AmountColumn(n)>>,
            <<ExtraColumn(n)>>}}

Next ==
  \/ \E data \in LifecycleTables : PreprocessData(data)
  \/ \E data \in LifecycleTables : \E fit_raises \in BOOLEAN : TrainCtgan(data, fit_raises)
  \/ \E n \in 0..MaxRows : \E adjust_target \in LifecycleAdjust :
       \E raw \in LifecycleSamples(n) \cup {NoData} :
         GenerateSyntheticData(n, adjust_target, raw)
  \/ \E data \in {NoData, synthetic_data} : AnalyzeData(data)

Spec == Init /\ [][Next]_vars

C5_UntrainedSampleRaisesNotTrained ==
  (last.op = "generate_synthetic_data" /\ ~ever_fitted)
    => /\ last.raised = "Model not trained yet."
       /\ IsNone(last.ret)
       /\ synthetic_data = last.before

\* ------------------------------------------------ preprocess_data alone
\* raw tables of n rows: a float64, an object and a datetime64 column, each
\* with any pattern of missing values
RawTables(n) ==
  {[nrows |-> n,
    columns |-> <<[name |-> "amount", dtype |-> "float64", vals |-> a],
                  [name |-> "merchant_category", dtype |-> "object", vals |-> c],
                  [name |-> "transaction_date", dtype |-> "datetime64", vals |-> d],
                  FraudColumn(n)>>] :
     a \in SeqsOver({FloatCell(2), FloatCell(6), NaN}, n),
     c \in SeqsOver({StrCell("Retail"), StrCell("1970-01-01 00:00:02"), NaN}, n),
     d \in SeqsOver({DateCell(1500), NaT}, n)}

PreprocessNext ==
  /\ last.op = "init"
  /\ \E data \in {NoData, EmptyFrame} \cup UNION {RawTables(n) : n \in 0..MaxRows} :
       PreprocessData(data)

SpecPreprocess == Init /\ [][PreprocessNext]_vars

MissingCells(tbl) ==
  {<<i, j>> \in (1..Len(tbl.columns)) \X (1..tbl.nrows) : IsMissing(tbl.columns[i].vals[j])}

\* C7: for every non-null input table the table preprocess_data returns has no
\* missing value in any column and the input's column names in the input's
\* order (and row count); the table passed in is not what is changed.
C7_NoMissingSameColumns ==
  (last.op = "preprocess_data" /\ ~IsNone(last.data))
    => /\ last.raised = ""
       /\ MissingCells(last.ret) = {}
       /\ ColumnNames(last.ret) = ColumnNames(last.data)
       /\ last.ret.nrows = last.data.nrows
       /\ columns = Schema(ColumnNames(last.data))
       /\ last.data_after = last.data

\* an all-missing numeric column, a missing string and a NaT went in
C7_Witness ==
  /\ last.op = "preprocess_data"
  /\ last.data.nrows >= 2
  /\ \A j \in 1..last.data.nrows : last.data.columns[1].vals[j] = NaN
  /\ \E j \in 1..last.data.nrows : last.data.columns[2].vals[j] = NaN
  /\ \E j \in 1..last.data.nrows : last.data.columns[3].vals[j] = NaT
  /\ \A j \in 1..last.data.nrows : last.ret.columns[1].vals[j] = FloatCell(0)

\* --------------------------------------------------- analyze_data alone
OptionalColumns(cs) == {<<>>} \cup {<<c>> : c \in cs}

\* tables of n rows over any subset of amount, is_fraud, merchant_category
\* and location
AnalyzeTables(n) ==
  {[nrows |-> n, columns |-> a \o f \o m \o l] :
     a \in OptionalColumns(
             {[name |-> "amount", dtype |-> "int64", vals |-> v] :
                v \in SeqsOver({IntCell(10), IntCell(500)}, n)}
             \cup {[name |-> "amount", dtype |-> "float64", vals |-> [i \in 1..n |-> NaN]],
                   [name |-> "amount", dtype |-> "object",
                    vals |-> [i \in 1..n |-> StrCell("$10")]]}),
     f \in OptionalColumns({FraudColumn(n)}),
     m \in OptionalColumns({[name |-> "merchant_category", dtype |-> "object",
                             vals |-> [i \in 1..n |-> StrCell("Retail")]]}),
     l \in OptionalColumns(
             {[name |-> "location", dtype |-> "object", vals |-> v] :
                v \in SeqsOver({StrCell("International"), StrCell("Domestic")}, n)})}

AnalyzeNext ==
  /\ last.op = "init"
  /\ \E data \in {NoData} \cup UNION {AnalyzeTables(n) : n \in 0..MaxRows} :
       AnalyzeData(data)

SpecAnalyze == Init /\ [][AnalyzeNext]_vars

AnalyzedWithoutAmount ==
  /\ last.op = "analyze_data"
  /\ last.raised = ""
  /\ ~IsNone(last.data)
  /\ ~HasCol(last.data, "amount")

\* C8 (as stated): for any table with no "amount" column, whatever other
\* columns it has, the report omits total_amount, avg_transaction and
\* risk_patterns.
C8_Original ==
  AnalyzedWithoutAmount
    => last.report.keys \cap {"total_amount", "avg_transaction", "risk_patterns"} = {}

\* C8 (amended): for any table with no "amount" column the report omits
\* total_amount and avg_transaction; it omits risk_patterns exactly when the
\* table also has no "location" column or is empty, and otherwise
\* risk_patterns holds international_transactions alone.
C8_NoAmountOmitsAmountKeys ==
  AnalyzedWithoutAmount
    => /\ last.report.keys \cap {"total_amount", "avg_transaction"} = {}
       /\ "risk_patterns" \in last.report.keys
            <=> (HasCol(last.data, "location") /\ ~IsEmpty(last.data))
       /\ "risk_patterns" \in last.report.keys
            => last.report.risk_patterns.keys = {"international_transactions"}
       /\ "risk_patterns" \notin last.report.keys => last.report.risk_patterns = NoRisk

\* a table with rows and a location column but no amount column
C8_Witness ==
  /\ AnalyzedWithoutAmount
  /\ last.data.nrows >= 2
  /\ HasCol(last.data, "location")
  /\ last.report.risk_patterns.international_transactions = 1

\* ------------------------------------------------------------- app.py
Threads == 1..NumThreads

\* a filename as its parts between dots; <<>>: the request carries no file
Filenames == {<<>>, <<"data", "CSV">>, <<"data", "txt">>}

\* config.allowed_file: '.' in filename and the lowered extension is 'csv'
AllowedFile(filename) ==
  /\ Len(filename) >= 2
  /\ (IF filename[Len(filename)] = "CSV" THEN "csv" ELSE filename[Len(filename)])
       \in {"csv"}

\* generate_sample_data, cut down to two rows and the columns analyze_data
\* reads; the second row is a fraud row when fraud_rate > 0
SampleData(fraud_rate) ==
  LET fraud == fraud_rate.num > 0
  IN  [nrows |-> 2,
       columns |->
         <<[name |-> "amount", dtype |-> "float64",
            vals |-> <<FloatCell(20), IF fraud THEN FloatCell(900) ELSE FloatCell(40)>>],
           [name |-> "location", dtype |-> "object",
            vals |-> <<StrCell("Domestic"),
                       IF fraud THEN StrCell("International") ELSE StrCell("Domestic")>>],
           [name |-> "is_fraud", dtype |-> "int64",
            vals |-> <<IntCell(0), IF fraud THEN IntCell(1) ELSE IntCell(0)>>]>>]

\* what pd.read_csv may return for the uploaded file; NoData: it raised
UploadedFiles ==
  {NoData, EmptyFrame,
   [nrows |-> 1,
    columns |-> <<[name |-> "amount", dtype |-> "object", vals |-> <<StrCell("$10")>>],
                  [name |-> "is_fraud", dtype |-> "int64", vals |-> <<IntCell(1)>>]>>],
   [nrows |-> 1,
    columns |-> <<[name |-> "amount", dtype |-> "float64", vals |-> <<FloatCell(20)>>],
                  [name |-> "Is_Fraud", dtype |-> "int64", vals |-> <<IntCell(1)>>]>>]}

FraudPercentages == {[num |-> 0, den |-> 1], [num |-> 1, den |-> 1]}

\* one table the model fitted on processed can return for sample(n): the
\* training columns, the training values in turn
SampleOf(processed, n) ==
  [nrows |-> n,
   columns |-> [k \in 1..Len(processed.columns) |->
                  [processed.columns[k] EXCEPT !.vals =
                     [i \in 1..n |->
                        processed.columns[k].vals[((i - 1) % processed.nrows) + 1]]]]]

ErrorResponse(status, message) ==
  [status |-> status, body |-> message, table |-> NoData, report |-> NoReport]

Respond(t, response) ==
  threads' = [threads EXCEPT ![t] = [Idle EXCEPT !.pc = "done", !.kind = threads[t].kind,
                                                 !.response = response]]

\* /generate up to the call of generate_synthetic_data: request-local work
GenerateRequest(t) ==
  /\ threads[t].pc = "idle"
  /\ \E num_transactions \in 1..MaxTransactions, fraud_percentage \in FraudPercentages,
        filename \in Filenames, uploaded_df \in UploadedFiles,
        fit_raises \in BOOLEAN, sample_raises \in BOOLEAN :
       LET file_uploaded == filename # <<>>
           source == IF file_uploaded /\ ~IsEmpty(uploaded_df) THEN uploaded_df
                     ELSE SampleData(fraud_percentage)
           processed == Preprocessed(source)
           adjust == IF HasCol(processed, "is_fraud")
                     THEN <<[col |-> "is_fraud", desired |-> fraud_percentage]>>
                     ELSE <<>>
           sampled == ReindexToSchema(SampleOf(processed, num_transactions),
                                      Schema(ColumnNames(processed)))
       IN  IF file_uploaded /\ ~AllowedFile(filename)
           THEN threads' = [threads EXCEPT ![t] =
                  [Idle EXCEPT !.pc = "done", !.kind = "generate",
                     !.response = ErrorResponse(400, "Invalid file format. Please upload a CSV file.")]]
           ELSE IF (file_uploaded /\ IsNone(uploaded_df)) \/ fit_raises \/ sample_raises
           THEN threads' = [threads EXCEPT ![t] =
                  [Idle EXCEPT !.pc = "done", !.kind = "generate",
                     !.response = ErrorResponse(500, "An error occurred")]]
           ELSE \E out \in AdjustTarget(sampled, num_transactions, adjust) :
                  threads' = [threads EXCEPT ![t] =
                    [Idle EXCEPT !.pc = "save", !.kind = "generate",
                                 !.synthetic_data = out.table]]
  /\ UNCHANGED <<latest_synthetic_data, last_writer, written, genVars>>

StoredCopyInPlace(old, new) ==
  IF IsNone(old) \/ Len(old.columns) = 0 \/ Len(new.columns) = 0 THEN new
  ELSE [new EXCEPT !.columns[1] = old.columns[1]]

\* what the global names after latest_synthetic_data = synthetic_data.copy():
\* a new frame built from the request's table alone
StoredCopy(old, new) == new

\* latest_synthetic_data = synthetic_data.copy()
SaveLatest(t) ==
  /\ threads[t].pc = "save"
  /\ latest_synthetic_data' = StoredCopy(latest_synthetic_data, threads[t].synthetic_data)
  /\ last_writer' = t
  /\ written' = threads[t].synthetic_data
  /\ threads' = [threads EXCEPT ![t].pc = "analyze"]
  /\ UNCHANGED genVars

\* analyze_data and the response built from it
AnalyzeAndRespond(t) ==
  /\ threads[t].pc = "analyze"
  /\ IF AnalyzeRaises(threads[t].synthetic_data)
     THEN Respond(t, ErrorResponse(500, "An error occurred"))
     ELSE Respond(t, [status |-> 200, body |-> "analysis", table |-> NoData,
                      report |-> Analysis(threads[t].synthetic_data)])
  /\ UNCHANGED <<latest_synthetic_data, last_writer, written, genVars>>

NoDataResponse ==
  ErrorResponse(400, "No data available for download. Please generate data first.")

\* /download/<format>: the first read of the global, `is None`
DownloadRequest(t) ==
  /\ threads[t].pc = "idle"
  /\ \E format \in {"csv", "json", "xml"} :
       IF IsNone(latest_synthetic_data)
       THEN threads' = [threads EXCEPT ![t] =
              [Idle EXCEPT !.pc = "done", !.kind = "download", !.format = format,
                           !.response = NoDataResponse]]
       ELSE threads' = [threads EXCEPT ![t] =
              [Idle EXCEPT !.pc = "check_empty", !.kind = "download", !.format = format]]
  /\ UNCHANGED <<latest_synthetic_data, last_writer, written, genVars>>

\* the second read, `.empty`
DownloadCheckEmpty(t) ==
  /\ threads[t].pc = "check_empty"
  /\ IF IsEmpty(latest_synthetic_data)
     THEN Respond(t, NoDataResponse)
     ELSE threads' = [threads EXCEPT ![t].pc = "export"]
  /\ UNCHANGED <<latest_synthetic_data, last_writer, written, genVars>>

\* the third read, to_csv / to_json of the frame the global names now
DownloadExport(t) ==
  /\ threads[t].pc = "export"
  /\ IF threads[t].format \in {"csv", "json"}
     THEN Respond(t, [status |-> 200, body |-> "file", table |-> latest_synthetic_data,
                      report |-> NoReport])
     ELSE Respond(t, ErrorResponse(400, "Invalid format"))
  /\ UNCHANGED <<latest_synthetic_data, last_writer, written, genVars>>

\* the response is sent and the thread takes the next request
Finish(t) ==
  /\ threads[t].pc = "done"
  /\ threads' = [threads EXCEPT ![t] = Idle]
  /\ UNCHANGED <<latest_synthetic_data, last_writer, written, genVars>>

AppNext ==
  \E t \in Threads :
    \/ GenerateRequest(t)
    \/ SaveLatest(t)
    \/ AnalyzeAndRespond(t)
    \/ DownloadRequest(t)
    \/ DownloadCheckEmpty(t)
    \/ DownloadExport(t)
    \/ Finish(t)

SpecApp == Init /\ [][AppNext]_vars

\* the slot is empty until a /generate writes it, and then holds the whole
\* table of the request that wrote it last
SlotIsLastWrite ==
  IF last_writer = 0 THEN IsNone(latest_synthetic_data)
  ELSE /\ latest_synthetic_data = written
       /\ ~IsNone(written)
       /\ threads[last_writer].pc \in {"analyze"} =>
            threads[last_writer].synthetic_data = written

\* a /download that answers: 'no data' while the slot is empty, and with a
\* valid format the table the slot holds as it exports, whoever wrote it
DownloadAnswersFromSlot ==
  \A t \in Threads :
    (threads[t].pc # "done" /\ threads'[t].pc = "done" /\ threads'[t].kind = "download")
      => /\ IsNone(latest_synthetic_data) => threads'[t].response = NoDataResponse
         /\ threads'[t].response.body = "file"
              => /\ threads'[t].response.table = written
                 /\ threads'[t].response.table = latest_synthetic_data
         /\ (threads[t].pc = "export" /\ threads[t].format \in {"csv", "json"})
              => threads'[t].response.body = "file"

\* C6: under every interleaving of /generate and /download requests the slot
\* is empty (and /download answers 'no data') or holds exactly the complete
\* table of the most recent /generate to write it, never a mixture; a
\* /download returns that table whichever request asks.
C6_LastWriterWins ==
  /\ SlotIsLastWrite
  /\ [][SlotIsLastWrite' /\ DownloadAnswersFromSlot]_vars

\* a download has answered with the table another thread wrote, while that
\* thread's /generate is still running
C6_Witness ==
  \E t \in Threads :
    /\ threads[t].kind = "download"
    /\ threads[t].pc = "done"
    /\ threads[t].response.body = "file"
    /\ last_writer # 0 /\ last_writer # t
    /\ threads[last_writer].pc = "analyze"
    /\ threads[t].response.table = threads[last_writer].synthetic_data

\* the names other than "is_fraud" under which an input may carry the fraud
\* label: its differently-cased variants
FraudLabelAliases == {"Is_Fraud", "IS_FRAUD"}

HasAliasLabel(table) ==
  \E k \in DOMAIN table.columns : table.columns[k].name \in FraudLabelAliases

\* C11: when the input carries the fraud label under an alias of is_fraud,
\* the label column is renamed to the canonical name: no table a /generate
\* produces, analyzes or stores for export, and no table a /download
\* returns, has a column under an alias name.
C11_OnlyCanonicalLabelName ==
  /\ ~HasAliasLabel(latest_synthetic_data)
  /\ \A t \in Threads :
       /\ ~HasAliasLabel(threads[t].synthetic_data)
       /\ ~HasAliasLabel(threads[t].response.table)

\* a /generate of thread t that is at its analysis step has assigned the
\* slot in this request: SaveLatest is the only step that leads there
HasSavedLatest(t) == threads[t].pc = "analyze"

\* thread t sends the response of a /generate in this step
GenerateAnswers(t) ==
  /\ threads[t].pc # "done"
  /\ threads'[t].pc = "done"
  /\ threads'[t].kind = "generate"

\* C12: a /generate either answers with the full analysis report of its
\* table, having replaced the slot with that table, or answers with an
\* explicit error and has not assigned the slot at all, so that a request
\* ending in an error never changes what a later /download returns.
C12_ErrorLeavesSlotUnchanged ==
  [][\A t \in Threads :
       GenerateAnswers(t) =>
         IF threads'[t].response.status = 200
         THEN /\ HasSavedLatest(t)
              /\ threads'[t].response.report = Analysis(threads[t].synthetic_data)
         ELSE /\ ~HasSavedLatest(t)
              /\ threads'[t].response.report = NoReport
              /\ latest_synthetic_data' = latest_synthetic_data]_vars

====
